---- MODULE Spec2Model ----
(***************************************************************************)
(* Model of conda-subchannel's index reduction (conda_subchannel/core.py,  *)
(* _keep_records and _reduce_index) and of the subcommand that drives it   *)
(* (conda_subchannel/cli.py, execute).                                     *)
(*                                                                         *)
(* Strings are tuples of one-character strings, so that parsing a spec     *)
(* string and glob-matching a dependency string are computed, not assumed. *)
(* An optional value (after, before) is <<>> for None and <<v>> for v.     *)
(* A list argument that is None and one that is empty are both <<>>: the   *)
(* code treats them alike (`x or ()`, truthiness tests).                   *)
(***************************************************************************)
EXTENDS Integers, Sequences, FiniteSets, TLC

VARIABLES
    pc,                       \* position in execute / _reduce_index
    entry,                    \* "api": _reduce_index called directly; "cli": through execute
    subdir_datas,             \* the fetched index: the set of records of all partitions
    specs_to_keep,            \* argument lists of _reduce_index, as given (spec strings)
    specs_to_remove,
    specs_depends_to_remove,
    specs_to_prune,
    trees_to_keep,
    after,
    before,
    records,                  \* the working dict: (subdir, fn) -> record
    specs_from_trees,         \* the worklist set of pending dependency MatchSpecs
    to_remove,                \* the set of keys collected for removal (line 186)
    calls,                    \* the core functions called so far, in order
    ret                       \* what the entry point returned or raised

vars == <<pc, entry, subdir_datas, specs_to_keep, specs_to_remove, specs_depends_to_remove,
          specs_to_prune, trees_to_keep, after, before, records, specs_from_trees,
          to_remove, calls, ret>>

args == <<specs_to_keep, specs_to_remove, specs_depends_to_remove, specs_to_prune,
          trees_to_keep, after, before>>

-----------------------------------------------------------------------------
(* Bounds and the universe of inputs *)

\* The largest number of filter arguments (specs, glob patterns, time bounds) of one call.
MaxFilters == 2

\* The records a channel may hold.  b-1 depends back on a (a cycle through a-1),
\* a-2 pulls in c, b-2.conda exists in both partitions, and c-1 has no timestamp
\* (the provider's default for a missing timestamp is 0).
A1 == [subdir |-> "linux-64", fn |-> "a-1.conda", name |-> "a", version |-> "1",
       depends |-> << <<"b">> >>, timestamp |-> 100]
A2 == [subdir |-> "linux-64", fn |-> "a-2.conda", name |-> "a", version |-> "2",
       depends |-> << <<"b", " ", "2">>, <<"c">> >>, timestamp |-> 200]
B1 == [subdir |-> "noarch", fn |-> "b-1.conda", name |-> "b", version |-> "1",
       depends |-> << <<"a">> >>, timestamp |-> 200]
B2 == [subdir |-> "noarch", fn |-> "b-2.conda", name |-> "b", version |-> "2",
       depends |-> << >>, timestamp |-> 300]
B2L == [subdir |-> "linux-64", fn |-> "b-2.conda", name |-> "b", version |-> "2",
        depends |-> << >>, timestamp |-> 300]
C1R == [subdir |-> "linux-64", fn |-> "c-1.conda", name |-> "c", version |-> "1",
        depends |-> << >>, timestamp |-> 0]

Pool == {A1, A2, B1, B2, B2L, C1R}

\* Spec strings a caller may pass: "a", "a=1", "a=2", "b", "*".
SpecStrings == { <<"a">>, <<"a", "=", "1">>, <<"a", "=", "2">>, <<"b">>, <<"*">> }

\* Glob patterns for specs_depends_to_remove: "b", "b?( *)", "a*".
GlobPatterns == { <<"b">>, <<"b", "?", "(", " ", "*", ")">>, <<"a", "*">> }

AfterChoices == { <<>>, <<0>>, <<100>>, <<150>> }
BeforeChoices == { <<>>, <<250>>, <<300>> }

ListSlots == {"keep", "tree", "remove", "prune"}
ListItems == (ListSlots \X SpecStrings) \cup ({"glob"} \X GlobPatterns)

SeqsUpTo(S, n) == UNION { [1..k -> S] : k \in 0..n }

RECURSIVE Slot(_, _)
Slot(items, slot) ==
    IF items = <<>> THEN <<>>
    ELSE (IF Head(items)[1] = slot THEN <<Head(items)[2]>> ELSE <<>>) \o Slot(Tail(items), slot)

-----------------------------------------------------------------------------
(* conda's MatchSpec, as far as the reduction uses it *)

\* MatchSpec(string): the name, and the version constraint after " " or "=".
MatchSpec(s) == [name |-> s[1], version |-> IF Len(s) >= 3 THEN s[3] ELSE "*"]

\* spec.match(record)
Match(spec, rec) ==
    /\ spec.name = "*" \/ spec.name = rec.name
    /\ spec.version = "*" \/ spec.version = rec.version

ParseAll(list) == [i \in 1..Len(list) |-> MatchSpec(list[i])]

Range(f) == { f[i] : i \in DOMAIN f }

-----------------------------------------------------------------------------
(* core.py *)

\* (mutant) a key that forgets the partition.
KeyByFilename(rec) == <<"", rec.fn>>

\* The dict key of a record (lines 138, 149, 174, 180).
Key(rec) == <<rec.subdir, rec.fn>>

\* (mutant) a query by package name alone, whatever version the spec asks for.
QueryByName(spec) == { r \in subdir_datas : spec.name = "*" \/ spec.name = r.name }

\* sd.query(spec) over every sd of subdir_datas
Query(spec) == { r \in subdir_datas : Match(spec, r) }

\* (mutant) the time test with inclusive bounds.
InWindowInclusive(rec, aft, bef) ==
    /\ bef = <<>> \/ ~(rec.timestamp > bef[1])
    /\ aft = <<>> \/ ~(rec.timestamp < aft[1])

\* The time test of _keep_records (lines 100-103 and 108-111).
InWindow(rec, aft, bef) ==
    /\ bef = <<>> \/ ~(rec.timestamp >= bef[1])
    /\ aft = <<>> \/ ~(rec.timestamp <= aft[1])

\* _keep_records raises ValueError when it is given nothing to select by.
KeepRecordsRaises(specs, aft, bef) == specs = <<>> /\ aft = <<>> /\ bef = <<>>

\* _keep_records: the set of records it yields.
KeepRecords(specs, aft, bef) ==
    IF specs # <<>>
    THEN { r \in subdir_datas : InWindow(r, aft, bef) /\ \E s \in Range(specs) : Match(s, r) }
    ELSE IF bef # <<>> \/ aft # <<>>
    THEN { r \in subdir_datas : InWindow(r, aft, bef) }
    ELSE {}

\* names_to_keep (line 134): a dict comprehension, so the last spec of a name wins.
KeepAndTrees == ParseAll(specs_to_keep) \o ParseAll(trees_to_keep)
LastIndex(name) ==
    CHOOSE i \in DOMAIN KeepAndTrees :
        /\ KeepAndTrees[i].name = name
        /\ \A j \in DOMAIN KeepAndTrees : KeepAndTrees[j].name = name => j <= i
NamesToKeepKeys == { KeepAndTrees[i].name : i \in DOMAIN KeepAndTrees }
names_to_keep == [n \in NamesToKeepKeys |-> KeepAndTrees[LastIndex(n)]]

\* Insert records under their keys, skipping keys already present (lines 138-140).
Insert(dict, recs) ==
    [k \in DOMAIN dict \cup { Key(r) : r \in recs } |->
        IF k \in DOMAIN dict THEN dict[k] ELSE CHOOSE r \in recs : Key(r) = k]

\* (mutant) every matched record is treated as new: it is stored again and its
\* dependencies are enqueued again.
NewRecordsAll(dict, recs) == recs

\* The records whose key the dict does not hold yet (lines 138-139, 149-150).
NewRecords(dict, recs) == { r \in recs : Key(r) \notin DOMAIN dict }

\* (mutant) the package of each record is enqueued along with its dependencies.
DepSpecsWithSelf(recs) ==
    { MatchSpec(d) : d \in UNION { Range(r.depends) : r \in recs } }
        \cup { [name |-> r.name, version |-> "*"] : r \in recs }

\* The MatchSpecs of the depends entries of the given records (lines 141-142, 152-156).
DepSpecs(recs) == { MatchSpec(d) : d \in UNION { Range(r.depends) : r \in recs } }

Drop(dict, keys) == [k \in DOMAIN dict \ keys |-> dict[k]]

\* Lines 164-167: the keys whose record has a name of names_to_keep and fails its spec.
ReconcileKeys(dict) ==
    { k \in DOMAIN dict :
        /\ dict[k].name \in NamesToKeepKeys
        /\ ~Match(names_to_keep[dict[k].name], dict[k]) }

\* Line 132 (and 171 without the trees).
HasKeepFilter == trees_to_keep # <<>> \/ specs_to_keep # <<>> \/ after # <<>> \/ before # <<>>
HasFlatKeep == specs_to_keep # <<>> \/ after # <<>> \/ before # <<>>

\* (mutant) prune that drops whatever fails the spec, of any name.
PruneKeysAnyName(dict) ==
    { k \in DOMAIN dict :
        \E spec \in Range(ParseAll(specs_to_prune)) : ~Match(spec, dict[k]) }

\* Lines 190-195.
PruneKeys(dict) ==
    { k \in DOMAIN dict :
        \E spec \in Range(ParseAll(specs_to_prune)) :
            spec.name = dict[k].name /\ ~Match(spec, dict[k]) }

\* (mutant) removal that, like prune, looks only at records of the spec's own name.
RemoveKeysSameName(dict) ==
    { k \in DOMAIN dict :
        \E spec \in Range(ParseAll(specs_to_remove)) :
            spec.name = dict[k].name /\ Match(spec, dict[k]) }

\* Lines 198-201.
RemoveKeys(dict) ==
    { k \in DOMAIN dict : \E spec \in Range(ParseAll(specs_to_remove)) : Match(spec, dict[k]) }

\* fnmatch and _fnmatch_build_re (lines 40-76): the pattern is split on the literal
\* "?( *)"; in each piece "*" is any run, "?" any one character, anything else itself;
\* the pieces are joined by an optional (" " then anything), anchored at both ends.
\* ([seq] classes are not modelled: no pattern of GlobPatterns has one.)
OptToken == <<"?", "(", " ", "*", ")">>

RECURSIVE Atoms(_)
Atoms(pat) ==
    IF pat = <<>> THEN <<>>
    ELSE IF Len(pat) >= Len(OptToken) /\ SubSeq(pat, 1, Len(OptToken)) = OptToken
    THEN <<"OPT">> \o Atoms(SubSeq(pat, Len(OptToken) + 1, Len(pat)))
    ELSE << (IF pat[1] = "*" THEN "STAR" ELSE IF pat[1] = "?" THEN "ANY" ELSE pat[1]) >>
         \o Atoms(Tail(pat))

RECURSIVE GlobMatch(_, _, _, _)
GlobMatch(atoms, i, s, j) ==
    IF i > Len(atoms) THEN j > Len(s)
    ELSE IF atoms[i] = "STAR" THEN \E k \in j..(Len(s) + 1) : GlobMatch(atoms, i + 1, s, k)
    ELSE IF atoms[i] = "OPT"
    THEN \/ GlobMatch(atoms, i + 1, s, j)
         \/ /\ j <= Len(s)
            /\ s[j] = " "
            /\ \E k \in (j + 1)..(Len(s) + 1) : GlobMatch(atoms, i + 1, s, k)
    ELSE IF atoms[i] = "ANY" THEN j <= Len(s) /\ GlobMatch(atoms, i + 1, s, j + 1)
    ELSE j <= Len(s) /\ s[j] = atoms[i] /\ GlobMatch(atoms, i + 1, s, j + 1)

fnmatch(name, pat) == GlobMatch(Atoms(pat), 1, name, 1)

\* Lines 203-208.
DependsKeys(dict) ==
    { k \in DOMAIN dict :
        \E pat \in Range(specs_depends_to_remove) :
            \E dep \in Range(dict[k].depends) : fnmatch(dep, pat) }

-----------------------------------------------------------------------------
(* _reduce_index, step by step *)

\* Lines 132-142: a keep filter is given; seed the dict from the tree specs.
KeepBranch ==
    /\ pc = "reduce"
    /\ HasKeepFilter
    /\ LET seeds == IF trees_to_keep # <<>>
                    THEN KeepRecords(ParseAll(trees_to_keep), after, before)
                    ELSE {}
       IN /\ records' = Insert(<<>>, seeds)
          /\ specs_from_trees' = DepSpecs(seeds)
    /\ pc' = "closure"
    /\ calls' = Append(calls, "_reduce_index")
    /\ UNCHANGED <<entry, subdir_datas, args, to_remove, ret>>

\* (mutant) a worklist keyed by package name: popping a spec discards the other pending
\* specs of the same name.
PopSpecByName ==
    /\ pc = "closure"
    /\ specs_from_trees # {}
    /\ \E spec \in specs_from_trees :
        LET new == NewRecords(records, Query(spec))
        IN /\ records' = Insert(records, new)
           /\ specs_from_trees' =
                  { s \in specs_from_trees : s.name # spec.name } \cup DepSpecs(new)
    /\ UNCHANGED <<pc, entry, subdir_datas, args, to_remove, calls, ret>>

\* Lines 145-156: one iteration of the while loop; set.pop() takes an arbitrary element.
PopSpec ==
    /\ pc = "closure"
    /\ specs_from_trees # {}
    /\ \E spec \in specs_from_trees :
        LET new == NewRecords(records, Query(spec))
        IN /\ records' = Insert(records, new)
           /\ specs_from_trees' = (specs_from_trees \ {spec}) \cup DepSpecs(new)
    /\ UNCHANGED <<pc, entry, subdir_datas, args, to_remove, calls, ret>>

\* Lines 164-169: drop what fails the spec kept for its name.
Reconcile ==
    /\ pc = "closure"
    /\ specs_from_trees = {}
    /\ records' = Drop(records, ReconcileKeys(records))
    /\ pc' = "keep"
    /\ UNCHANGED <<entry, subdir_datas, args, specs_from_trees, to_remove, calls, ret>>

\* Lines 171-176 and 186: the non-recursive keeps.
KeepStep ==
    /\ pc = "keep"
    /\ records' = IF HasFlatKeep
                  THEN Insert(records, KeepRecords(ParseAll(specs_to_keep), after, before))
                  ELSE records
    /\ to_remove' = {}
    /\ pc' = "prune"
    /\ UNCHANGED <<entry, subdir_datas, args, specs_from_trees, calls, ret>>

\* Lines 177-186: no keep filter, start with everything.
SeedAll ==
    /\ pc = "reduce"
    /\ ~HasKeepFilter
    /\ records' = Insert(<<>>, subdir_datas)
    /\ to_remove' = {}
    /\ pc' = "prune"
    /\ calls' = Append(calls, "_reduce_index")
    /\ UNCHANGED <<entry, subdir_datas, args, specs_from_trees, ret>>

\* Lines 190-195.
Prune ==
    /\ pc = "prune"
    /\ to_remove' = to_remove \cup PruneKeys(records)
    /\ pc' = "remove"
    /\ UNCHANGED <<entry, subdir_datas, args, records, specs_from_trees, calls, ret>>

\* Lines 198-201.
Remove ==
    /\ pc = "remove"
    /\ to_remove' = to_remove \cup RemoveKeys(records)
    /\ pc' = "depends"
    /\ UNCHANGED <<entry, subdir_datas, args, records, specs_from_trees, calls, ret>>

\* Lines 203-208.
DependsRemove ==
    /\ pc = "depends"
    /\ to_remove' = to_remove \cup DependsKeys(records)
    /\ pc' = "pop"
    /\ UNCHANGED <<entry, subdir_datas, args, records, specs_from_trees, calls, ret>>

\* Lines 210-213.
Return ==
    /\ pc = "pop"
    /\ records' = Drop(records, to_remove)
    /\ pc' = IF entry = "cli" THEN "count" ELSE "done"
    /\ ret' = IF entry = "cli" THEN ret ELSE "records"
    /\ UNCHANGED <<entry, subdir_datas, args, specs_from_trees, to_remove, calls>>

Reduce ==
    \/ KeepBranch
    \/ PopSpec
    \/ Reconcile
    \/ KeepStep
    \/ SeedAll
    \/ Prune
    \/ Remove
    \/ DependsRemove
    \/ Return

-----------------------------------------------------------------------------
(* A direct call of _reduce_index *)

Init ==
    /\ pc = "reduce"
    /\ entry = "api"
    /\ subdir_datas \in SUBSET Pool
    /\ after \in AfterChoices
    /\ before \in BeforeChoices
    /\ Len(after) + Len(before) <= MaxFilters
    /\ \E items \in SeqsUpTo(ListItems, MaxFilters - (Len(after) + Len(before))) :
        /\ specs_to_keep = Slot(items, "keep")
        /\ trees_to_keep = Slot(items, "tree")
        /\ specs_to_remove = Slot(items, "remove")
        /\ specs_to_prune = Slot(items, "prune")
        /\ specs_depends_to_remove = Slot(items, "glob")
    /\ records = <<>>
    /\ specs_from_trees = {}
    /\ to_remove = {}
    /\ calls = <<>>
    /\ ret = "none"

Next == Reduce

Spec == Init /\ [][Next]_vars

\* The calls that decide the worklist loop: the loop reads only the index, the tree-keep
\* specs and the time bounds (lines 135-156), so the other lists are left out.
InitClosure ==
    /\ pc = "reduce"
    /\ entry = "api"
    /\ subdir_datas \in SUBSET Pool
    /\ after \in AfterChoices
    /\ before \in BeforeChoices
    /\ Len(after) + Len(before) <= MaxFilters
    /\ \E items \in SeqsUpTo({"tree"} \X SpecStrings, MaxFilters - (Len(after) + Len(before))) :
        trees_to_keep = Slot(items, "tree")
    /\ specs_to_keep = <<>>
    /\ specs_to_remove = <<>>
    /\ specs_to_prune = <<>>
    /\ specs_depends_to_remove = <<>>
    /\ records = <<>>
    /\ specs_from_trees = {}
    /\ to_remove = {}
    /\ calls = <<>>
    /\ ret = "none"

\* A call that has started runs on: Python executes the function to its return.
SpecFair == InitClosure /\ [][Next]_vars /\ WF_vars(Next)

-----------------------------------------------------------------------------
(* cli.py: execute *)

\* date_argument (lines 22-25), for the "ts:<number>" form: the text after "ts:" read as
\* a decimal number.  (The calendar forms, lines 26-31, are not modelled.)
Digits == <<"0", "1", "2", "3", "4", "5", "6", "7", "8", "9">>
DigitValue(ch) == (CHOOSE i \in DOMAIN Digits : Digits[i] = ch) - 1

RECURSIVE Number(_)
Number(s) ==
    IF s = <<>> THEN 0 ELSE Number(SubSeq(s, 1, Len(s) - 1)) * Len(Digits) + DigitValue(s[Len(s)])

date_argument(date) == Number(SubSeq(date, Len(<<"t", "s", ":">>) + 1, Len(date)))

\* What --after and --before may be given: ts:0, ts:100, ts:150 and ts:250, ts:300.
AfterArguments ==
    { <<"t", "s", ":", "0">>, <<"t", "s", ":", "1", "0", "0">>, <<"t", "s", ":", "1", "5", "0">> }
BeforeArguments ==
    { <<"t", "s", ":", "2", "5", "0">>, <<"t", "s", ":", "3", "0", "0">> }

\* args.after / args.before: None when the option is absent, else date_argument(text).
CliAfterChoices == { <<>> } \cup { <<date_argument(s)>> : s \in AfterArguments }
CliBeforeChoices == { <<>> } \cup { <<date_argument(s)>> : s \in BeforeArguments }

\* Python truthiness of an optional number: None is false, and so is 0.0.
Truthy(opt) == opt # <<>> /\ opt[1] # 0

\* (mutant) the required --channel counted among the filters.
AnyArgument == TRUE

\* Line 118: any([args.after, args.before, args.keep, args.remove, args.keep_tree, args.prune])
AnyFilter ==
    \/ Truthy(after)
    \/ Truthy(before)
    \/ specs_to_keep # <<>>
    \/ specs_to_remove # <<>>
    \/ trees_to_keep # <<>>
    \/ specs_to_prune # <<>>

\* Lines 118-119.
CheckFilters ==
    /\ pc = "execute"
    /\ IF AnyFilter
       THEN pc' = "fetch" /\ ret' = ret
       ELSE pc' = "done" /\ ret' = "ArgumentError"
    /\ UNCHANGED <<entry, subdir_datas, args, records, specs_from_trees, to_remove, calls>>

\* Lines 121-127: the channel's partitions are fetched; any index may come back.
Fetch ==
    /\ pc = "fetch"
    /\ subdir_datas' \in SUBSET Pool
    /\ calls' = Append(calls, "_fetch_channel")
    /\ pc' = "reduce"
    /\ UNCHANGED <<entry, args, records, specs_from_trees, to_remove, ret>>

\* (mutant) "did not filter" taken to mean that nothing is left.
CountEmpty ==
    /\ pc = "count"
    /\ LET filtered_count == Cardinality(DOMAIN records)
       IN IF filtered_count = 0
          THEN pc' = "done" /\ ret' = "1"
          ELSE pc' = "write" /\ ret' = ret
    /\ UNCHANGED <<entry, subdir_datas, args, records, specs_from_trees, to_remove, calls>>

\* Lines 140-145.
Count ==
    /\ pc = "count"
    /\ LET total_count == Cardinality(subdir_datas)
           filtered_count == Cardinality(DOMAIN records)
       IN IF total_count = filtered_count
          THEN pc' = "done" /\ ret' = "1"
          ELSE pc' = "write" /\ ret' = ret
    /\ UNCHANGED <<entry, subdir_datas, args, records, specs_from_trees, to_remove, calls>>

\* Lines 147-159.
Write ==
    /\ pc = "write"
    /\ calls' = calls \o <<"_dump_records", "_write_to_disk">>
    /\ ret' = "0"
    /\ pc' = "done"
    /\ UNCHANGED <<entry, subdir_datas, args, records, specs_from_trees, to_remove>>

\* The arguments argparse can hand to execute: each list absent or non-empty, no
\* depends patterns (the subcommand has no such option), the index not yet fetched.
InitCli ==
    /\ pc = "execute"
    /\ entry = "cli"
    /\ subdir_datas = {}
    /\ after \in CliAfterChoices
    /\ before \in CliBeforeChoices
    /\ Len(after) + Len(before) <= MaxFilters
    /\ \E items \in SeqsUpTo(ListSlots \X SpecStrings, MaxFilters - (Len(after) + Len(before))) :
        /\ specs_to_keep = Slot(items, "keep")
        /\ trees_to_keep = Slot(items, "tree")
        /\ specs_to_remove = Slot(items, "remove")
        /\ specs_to_prune = Slot(items, "prune")
    /\ specs_depends_to_remove = <<>>
    /\ records = <<>>
    /\ specs_from_trees = {}
    /\ to_remove = {}
    /\ calls = <<>>
    /\ ret = "none"

NextCli ==
    \/ CheckFilters
    \/ Fetch
    \/ Reduce
    \/ Count
    \/ Write

SpecCli == InitCli /\ [][NextCli]_vars

-----------------------------------------------------------------------------
(* Vocabulary of the properties, stated on the arguments and the index alone *)

KeepSpecs == Range(ParseAll(specs_to_keep))
TreeSpecs == Range(ParseAll(trees_to_keep))
RemoveSpecs == Range(ParseAll(specs_to_remove))
PruneSpecs == Range(ParseAll(specs_to_prune))

Result == { records[k] : k \in DOMAIN records }

\* after < timestamp < before, for the bounds that are given
StrictlyInside(rec) ==
    /\ after # <<>> => after[1] < rec.timestamp
    /\ before # <<>> => rec.timestamp < before[1]

MatchesRemove(rec) == \E s \in RemoveSpecs : Match(s, rec)
FailsPrune(rec) == \E p \in PruneSpecs : p.name = rec.name /\ ~Match(p, rec)
DependsGlobbed(rec) ==
    \E pat \in Range(specs_depends_to_remove) : \E dep \in Range(rec.depends) : fnmatch(dep, pat)
Excluded(rec) == MatchesRemove(rec) \/ FailsPrune(rec) \/ DependsGlobbed(rec)

\* The dict that holds exactly the given records, each under (its subdir, its filename).
DictOf(recs) ==
    [k \in { <<r.subdir, r.fn>> : r \in recs } |-> CHOOSE r \in recs : <<r.subdir, r.fn>> = k]

\* Everything reached from the given records by following depends edges.
RECURSIVE Reach(_)
Reach(R) ==
    LET more == R \cup { r \in subdir_datas :
                           \E q \in R : \E d \in Range(q.depends) : Match(MatchSpec(d), r) }
    IN IF more = R THEN R ELSE Reach(more)

TreeSeeds == { r \in subdir_datas : StrictlyInside(r) /\ \E s \in TreeSpecs : Match(s, r) }

OnlyGiven(given) ==
    /\ "keep" \in given \/ specs_to_keep = <<>>
    /\ "tree" \in given \/ trees_to_keep = <<>>
    /\ "remove" \in given \/ specs_to_remove = <<>>
    /\ "prune" \in given \/ specs_to_prune = <<>>
    /\ "glob" \in given \/ specs_depends_to_remove = <<>>
    /\ "time" \in given \/ (after = <<>> /\ before = <<>>)

-----------------------------------------------------------------------------
(* C1 *)

\* C1: every record of the returned working set matches no remove spec, has no depends
\* entry matching a depends-remove pattern, and matches every prune spec of its own name;
\* so remove wins over keep, tree-keep (closure-added records included) and prune.
RemovalsHold ==
    pc = "done" =>
        \A R \in Result :
            /\ \A s \in RemoveSpecs : ~Match(s, R)
            /\ \A pat \in Range(specs_depends_to_remove) :
                   \A dep \in Range(R.depends) : ~fnmatch(dep, pat)
            /\ \A p \in PruneSpecs : p.name = R.name => Match(p, R)

\* Scenario B: the tree of a pulled b-2 in, and remove b took it out again.
RemovalsHoldWitness ==
    /\ pc = "done"
    /\ trees_to_keep = << <<"a">> >>
    /\ specs_to_remove = << <<"b">> >>
    /\ subdir_datas = {A1, B2}
    /\ Result = {A1}

-----------------------------------------------------------------------------
(* C2 *)

\* C2: no record of the returned working set has the name of a keep spec or of a
\* tree-keep spec while failing that spec.  Stated here for the least demanding case
\* the claim covers: no keep specs are given, and a record of a tree-keep name has to
\* match only one of the tree-keep specs of that name.
ReconciledResult ==
    (pc = "done" /\ specs_to_keep = <<>>) =>
        \A R \in Result :
            (\E s \in TreeSpecs : s.name = R.name) =>
                \E s \in TreeSpecs : s.name = R.name /\ Match(s, R)

-----------------------------------------------------------------------------
(* C3 *)

\* What C3 asks to be present: the matches of the tree-keep specs inside the time
\* window, and everything reached from them along depends edges.  A record that fails
\* every keep and tree-keep spec of its own name is not demanded (reconciliation drops
\* it), nor is one that remove, prune or the depends patterns exclude.
Demanded ==
    { r \in Reach(TreeSeeds) :
        /\ ~Excluded(r)
        /\ (\E s \in KeepSpecs \cup TreeSpecs : s.name = r.name) =>
               \E s \in KeepSpecs \cup TreeSpecs : s.name = r.name /\ Match(s, r) }

\* No remove spec names a package that the tree depends on.
NoCompetingRemove ==
    \A s \in RemoveSpecs :
        /\ s.name # "*"
        /\ \A r \in Reach(TreeSeeds) : \A d \in Range(r.depends) : MatchSpec(d).name # s.name

\* C3: closure completeness: with no competing remove spec, every match of a tree-keep
\* spec and every record reached from one by depends edges is in the returned working
\* set, also when several tree-keep specs share a name and when dependencies form a cycle.
ClosureComplete ==
    (pc = "done" /\ trees_to_keep # <<>> /\ NoCompetingRemove) => Demanded \subseteq Result

-----------------------------------------------------------------------------
(* C4 *)

\* C4: with keep specs only, the returned working set is exactly the records, over all
\* partitions, that match at least one keep spec, each under (its partition, its filename).
KeepOnlyExact ==
    (pc = "done" /\ specs_to_keep # <<>> /\ OnlyGiven({"keep"})) =>
        records = DictOf({ r \in subdir_datas : \E s \in KeepSpecs : Match(s, r) })

\* keep = [b] on an index that has b-2.conda in both partitions, and other names.
KeepOnlyExactWitness ==
    /\ pc = "done"
    /\ specs_to_keep = << <<"b">> >>
    /\ OnlyGiven({"keep"})
    /\ subdir_datas = Pool
    /\ Result = {B1, B2, B2L}
    /\ records[<<"linux-64", "b-2.conda">>] = B2L
    /\ records[<<"noarch", "b-2.conda">>] = B2

-----------------------------------------------------------------------------
(* C5 *)

\* C5: with time bounds and no tree-keep specs (with or without keep specs), every record
\* of the returned working set has after < timestamp and timestamp < before, for the
\* bounds given; a record whose timestamp equals a bound is not in it.
WindowExclusive ==
    /\ (pc = "done" /\ trees_to_keep = <<>>) =>
           \A R \in Result :
               /\ after # <<>> => (after[1] < R.timestamp /\ R.timestamp # after[1])
               /\ before # <<>> => (R.timestamp < before[1] /\ R.timestamp # before[1])
    \* timestamps 100, 200, 300 with after = 150 and before = 250 leave the record at 200
    /\ (pc = "done" /\ after = <<150>> /\ before = <<250>> /\ OnlyGiven({"time"})
           /\ subdir_datas = {A1, B1, B2}) => Result = {B1}

\* Timestamps 100, 200, 300 with after = 100 and before = 300: only the record at 200.
WindowExclusiveWitness ==
    /\ pc = "done"
    /\ after = <<100>>
    /\ before = <<300>>
    /\ subdir_datas = {A1, B1, B2}
    /\ Result = {B1}

-----------------------------------------------------------------------------
(* C6 *)

NoneSupplied ==
    /\ specs_to_keep = <<>> /\ trees_to_keep = <<>> /\ specs_to_remove = <<>>
    /\ specs_to_prune = <<>> /\ after = <<>> /\ before = <<>>

\* C6: when execute is given none of keep, keep-tree, remove, prune, after, before, it
\* raises the 'at least one filter' error and calls none of _fetch_channel,
\* _reduce_index, _dump_records, _write_to_disk; it never ends in success.
NoFilterFailsFast ==
    (entry = "cli" /\ NoneSupplied) =>
        /\ calls = <<>>
        /\ pc \in {"execute", "done"}
        /\ pc = "done" => ret = "ArgumentError"

NoFilterFailsFastWitness ==
    entry = "cli" /\ NoneSupplied /\ pc = "done" /\ ret = "ArgumentError" /\ calls = <<>>

-----------------------------------------------------------------------------
(* C7 *)

\* C7: a run of execute that got past the filter check returns 1, without writing, when
\* the reduced working set has as many records as the fetched partitions, and otherwise
\* writes and returns 0; the calls are always fetch, then reduce, then write.
UnproductiveReturnsOne ==
    /\ \E n \in 0..4 :
           calls = SubSeq(<<"_fetch_channel", "_reduce_index", "_dump_records", "_write_to_disk">>,
                          1, n)
    /\ (entry = "cli" /\ pc = "done" /\ ret # "ArgumentError") =>
           IF Cardinality(DOMAIN records) = Cardinality(subdir_datas)
           THEN ret = "1" /\ calls = <<"_fetch_channel", "_reduce_index">>
           ELSE ret = "0" /\ calls = <<"_fetch_channel", "_reduce_index",
                                       "_dump_records", "_write_to_disk">>

\* --keep "*" on a non-empty channel: nothing is filtered out, 1 is returned, nothing written.
UnproductiveReturnsOneWitness ==
    /\ entry = "cli"
    /\ pc = "done"
    /\ specs_to_keep = << <<"*">> >>
    /\ subdir_datas = Pool
    /\ Result = Pool
    /\ ret = "1"
    /\ calls = <<"_fetch_channel", "_reduce_index">>

-----------------------------------------------------------------------------
(* C8 *)

\* The working set that the arguments and the index fix, computed without a worklist.
Reconciled ==
    { r \in (IF trees_to_keep # <<>> THEN Reach(TreeSeeds) ELSE {}) :
        r.name \in NamesToKeepKeys => Match(names_to_keep[r.name], r) }
FlatKept ==
    IF specs_to_keep # <<>>
    THEN { r \in subdir_datas : StrictlyInside(r) /\ \E s \in KeepSpecs : Match(s, r) }
    ELSE IF after # <<>> \/ before # <<>> THEN { r \in subdir_datas : StrictlyInside(r) }
    ELSE {}
Expected ==
    { r \in (IF HasKeepFilter THEN Reconciled \cup FlatKept ELSE subdir_datas) : ~Excluded(r) }

\* C8: determinism: whatever order the pending specs are popped in, a call ends with the
\* one working set that its index and filters determine (same keys, same records), and
\* it modifies neither the index nor the filters.
Deterministic ==
    /\ [](pc = "done" => records = DictOf(Expected))
    /\ [][subdir_datas' = subdir_datas /\ args' = args]_vars

\* A closure over the whole pool, whose worklist held several specs at once.
DeterministicWitness ==
    /\ pc = "done"
    /\ trees_to_keep = << <<"a", "=", "1">> >>
    /\ OnlyGiven({"tree"})
    /\ subdir_datas = Pool
    /\ Result = Pool \ {A2}

-----------------------------------------------------------------------------
(* C9 *)

\* C9: a dependency spec whose name is that of a tree-keep spec (and of no remove spec)
\* is merged with that tree-keep spec before it is enqueued (and a diagnostic is
\* returned): so every such pending spec is at least as restrictive as the tree-keep spec.
CycleSpecsMerged ==
    \A spec \in specs_from_trees :
        \A tree \in TreeSpecs :
            (tree.name = spec.name /\ \A s \in RemoveSpecs : s.name # spec.name) =>
                (tree.version = "*" \/ spec.version = tree.version)

-----------------------------------------------------------------------------
(* C10 *)

\* C10: prune collects only keys of the working set whose record has the name of a prune
\* spec and fails that spec, and it adds nothing; with prune specs only, the result is the
\* full index minus the records that have the name of a prune spec and fail it.
PruneNameScoped ==
    /\ pc = "remove" =>
           \A k \in to_remove :
               /\ k \in DOMAIN records
               /\ \E p \in PruneSpecs : p.name = records[k].name /\ ~Match(p, records[k])
    /\ (pc = "done" /\ specs_to_prune # <<>> /\ OnlyGiven({"prune"})) =>
           records = DictOf({ r \in subdir_datas :
                                ~\E p \in PruneSpecs : p.name = r.name /\ ~Match(p, r) })

\* prune = [a=1] on the whole pool: a-2 goes, every other record stays.
PruneNameScopedWitness ==
    /\ pc = "done"
    /\ specs_to_prune = << <<"a", "=", "1">> >>
    /\ OnlyGiven({"prune"})
    /\ subdir_datas = Pool
    /\ Result = Pool \ {A2}

-----------------------------------------------------------------------------
(* C11 *)

\* C11: with tree-keep specs and a time bound (and no keep specs), the window is not a
\* keep filter of its own: a record that matches no tree-keep spec and is not reached by
\* the dependency closure is not in the returned working set, even inside the window.
WindowNotStandaloneWithTrees ==
    (pc = "done" /\ trees_to_keep # <<>> /\ specs_to_keep = <<>>
        /\ (after # <<>> \/ before # <<>>)) =>
        \A R \in Result :
            \/ \E s \in TreeSpecs : Match(s, R)
            \/ R \in Reach(TreeSeeds)

-----------------------------------------------------------------------------
(* C12 *)

\* A record of the index that carries no timestamp: the provider reports it as 0.
HasNoTimestamp(rec) == rec.timestamp = 0

\* C12: with after and/or before given (before alone included) and no tree-keep specs,
\* no record without a timestamp is in the returned working set.
UntimedExcluded ==
    (pc = "done" /\ trees_to_keep = <<>> /\ (after # <<>> \/ before # <<>>)) =>
        \A R \in Result : ~HasNoTimestamp(R)

-----------------------------------------------------------------------------
(* C13 *)

\* One iteration of the worklist loop.
LoopStep == pc = "closure" /\ pc' = "closure"

\* C13: the worklist loop ends and the call returns, on every index, cyclic ones
\* included.  In the loop the visited keys only grow and never outnumber the records of
\* the index, a key already present keeps its record, every iteration either visits a
\* new key or shrinks the worklist, and specs are enqueued only from the depends of the
\* records inserted in that iteration.
ClosureTerminates ==
    /\ <>(pc = "done")
    /\ [](Cardinality(DOMAIN records) <= Cardinality(subdir_datas))
    /\ [][LoopStep =>
            /\ DOMAIN records \subseteq DOMAIN records'
            /\ \A k \in DOMAIN records : records'[k] = records[k]
            /\ \/ Cardinality(DOMAIN records') > Cardinality(DOMAIN records)
               \/ /\ records' = records
                  /\ Cardinality(specs_from_trees') < Cardinality(specs_from_trees)
            /\ \A s \in specs_from_trees' \ specs_from_trees :
                   \E k \in DOMAIN records' \ DOMAIN records :
                       \E d \in Range(records'[k].depends) : s = MatchSpec(d)]_vars

\* The cycle a-1 -> b -> b-1 -> a was walked: the spec a came back while a-1 was
\* already visited, and the loop still drained.
ClosureTerminatesWitness ==
    /\ pc = "done"
    /\ trees_to_keep = << <<"a", "=", "1">> >>
    /\ OnlyGiven({"tree"})
    /\ subdir_datas = {A1, B1}
    /\ Result = {A1, B1}

-----------------------------------------------------------------------------
(* C14 *)

\* C14: with tree-keep specs only, every record of the returned working set matches a
\* tree-keep spec or matches a depends entry of a record the closure added; an
\* unrelated record is never in it.  The index {a-1 (depends: b), b-2} with
\* tree_keep = [a] gives exactly {a-1, b-2}.
ClosureSound ==
    /\ (pc = "done" /\ trees_to_keep # <<>> /\ OnlyGiven({"tree"})) =>
           \A R \in Result :
               \/ \E s \in TreeSpecs : Match(s, R)
               \/ \E q \in Reach(TreeSeeds) :
                      \E d \in Range(q.depends) : Match(MatchSpec(d), R)
    /\ (pc = "done" /\ trees_to_keep = << <<"a">> >> /\ OnlyGiven({"tree"})
           /\ subdir_datas = {A1, B2}) => Result = {A1, B2}

\* a-2 depends on "b 2" and on c: b-2 and c-1 come in, b-1 and a-1 stay out.
ClosureSoundWitness ==
    /\ pc = "done"
    /\ trees_to_keep = << <<"a", "=", "2">> >>
    /\ OnlyGiven({"tree"})
    /\ subdir_datas = Pool
    /\ Result = {A2, B2, B2L, C1R}

-----------------------------------------------------------------------------
(* C15 *)

\* C15 as claimed: at every step of the closure expansion the pending specs are fewer
\* than the records of the index (stated without strictness, which an empty worklist
\* on an empty index would already break).
WorklistBelowRecordCount ==
    pc = "closure" => Cardinality(specs_from_trees) <= Cardinality(subdir_datas)

\* The depends entries of the index.
AllDepends == UNION { Range(r.depends) : r \in subdir_datas }

\* C15 as amended: at every step of the closure expansion every pending spec is the
\* spec of a depends entry of some record of the index, so the worklist holds at most
\* as many specs as the index has distinct depends entries.
WorklistWithinDepends ==
    pc = "closure" =>
        /\ \A s \in specs_from_trees : \E d \in AllDepends : s = MatchSpec(d)
        /\ Cardinality(specs_from_trees) <= Cardinality(AllDepends)

\* One record, two pending specs: a-2 alone puts "b 2" and "c" on the worklist.
WorklistWithinDependsWitness ==
    /\ pc = "closure"
    /\ subdir_datas = {A2}
    /\ Cardinality(specs_from_trees) = 2
    /\ DOMAIN records = { <<"linux-64", "a-2.conda">> }

-----------------------------------------------------------------------------
(* C16 *)

\* C16: execute raises the 'at least one filter' error only if every filter is absent;
\* an after or before that is given with the value 0 ("--after ts:0") is a filter, as it
\* is for _reduce_index, and execute goes on to fetch and reduce with it.
ErrorOnlyWithoutFilters ==
    (entry = "cli" /\ ret = "ArgumentError") => NoneSupplied

====
